---------------------------- MODULE Spec2Model ----------------------------
(***************************************************************************)
(* A model of NoteTaker (src/notetaker.py) and of the load-mutate-save     *)
(* cycle of its command line (src/n.py).                                   *)
(*                                                                         *)
(* A Python str is a sequence of one-character strings.  A Python dict is  *)
(* a function together with the sequence of its keys in insertion order.   *)
(* A yaml document is the sequence of its <<key, scalar text>> entries:    *)
(* the yaml library carries keys and scalar texts unchanged, so what is    *)
(* modelled is what the repository's hooks put in and read out of them.    *)
(***************************************************************************)
EXTENDS Integers, Sequences, FiniteSets, TLC

(***************************************************************************)
(* Bounds of the model.                                                    *)
(***************************************************************************)
\* add_note is called at most MaxAdds times in one behaviour.
MaxAdds == 3

(***************************************************************************)
(* Strings.                                                                *)
(***************************************************************************)
Range(f) == {f[x] : x \in DOMAIN f}

Min(S) == CHOOSE x \in S : \A y \in S : x <= y

Max(S) == CHOOSE x \in S : \A y \in S : y <= x

\* s[a..b], empty when b < a.
Slice(s, a, b) == SubSeq(s, a, b)

\* str.lower on one character, for the letters the model's inputs use.
LowerChar(c) ==
    CASE c = "T" -> "t"
      [] c = "O" -> "o"
      [] c = "D" -> "d"
      [] c = "A" -> "a"
      [] OTHER -> c

\* str.lower
Lower(s) == [p \in DOMAIN s |-> LowerChar(s[p])]

\* sep.join(parts)
RECURSIVE Join(_, _)
Join(parts, sep) ==
    IF parts = <<>> THEN <<>>
    ELSE IF Len(parts) = 1 THEN parts[1]
    ELSE parts[1] \o sep \o Join(Tail(parts), sep)

\* The least p >= from at which sep occurs in s, 0 when there is none.
FindFrom(s, sep, from) ==
    LET hits == {p \in from..(Len(s) - Len(sep) + 1) :
                    Slice(s, p, p + Len(sep) - 1) = sep}
    IN  IF hits = {} THEN 0 ELSE Min(hits)

\* s.split(sep) for a non-empty sep: always at least one part.
RECURSIVE SplitFrom(_, _, _)
SplitFrom(s, sep, from) ==
    LET p == FindFrom(s, sep, from)
    IN  IF p = 0 THEN <<Slice(s, from, Len(s))>>
        ELSE <<Slice(s, from, p - 1)>> \o SplitFrom(s, sep, p + Len(sep))

Split(s, sep) == SplitFrom(s, sep, 1)

\* The classes of the re module: \s, \d and the dot (no newline).
IsSpace(c) == c \in {" ", "\t", "\n"}

IsDigit(c) == c \in {"0", "1", "2", "3", "4", "5", "6", "7", "8", "9"}

IsDot(c) == c # "\n"

DigitChar(n) == <<"0", "1", "2", "3", "4", "5", "6", "7", "8", "9">>[n + 1]

DigitVal(c) == CHOOSE n \in 0..9 : DigitChar(n) = c

\* "%02d" of strftime for a field in 0..99.
TwoDigits(n) == <<DigitChar(n \div 10), DigitChar(n % 10)>>

\* int(str) for a run of digits.
RECURSIVE DigitsVal(_)
DigitsVal(s) ==
    IF s = <<>> THEN 0
    ELSE 10 * DigitsVal(Slice(s, 1, Len(s) - 1)) + DigitVal(s[Len(s)])

\* str(int) for a natural number.
RECURSIVE IntToStr(_)
IntToStr(n) ==
    IF n < 10 THEN <<DigitChar(n)>>
    ELSE IntToStr(n \div 10) \o <<DigitChar(n % 10)>>

(***************************************************************************)
(* Note.date_format: strftime and strptime of "%y/%m/%d %H:%M:%S".         *)
(***************************************************************************)
DateTime(y, mo, d, h, mi, s) ==
    [year |-> y, month |-> mo, day |-> d, hour |-> h, minute |-> mi, second |-> s]

IsLeap(y) == (y % 4 = 0 /\ y % 100 # 0) \/ y % 400 = 0

DaysIn(y, mo) ==
    IF mo = 2 THEN (IF IsLeap(y) THEN 29 ELSE 28)
    ELSE IF mo \in {4, 6, 9, 11} THEN 30 ELSE 31

\* date.strftime("[%y/%m/%d %H:%M:%S]"): the sub-second part is dropped.
strftime(date) ==
    <<"[">> \o TwoDigits(date.year % 100) \o <<"/">> \o TwoDigits(date.month)
            \o <<"/">> \o TwoDigits(date.day) \o <<" ">> \o TwoDigits(date.hour)
            \o <<":">> \o TwoDigits(date.minute) \o <<":">> \o TwoDigits(date.second)
            \o <<"]">>

\* The end of the run of digits of s that starts at p (p - 1 when s[p] is none).
RECURSIVE DigitsEnd(_, _)
DigitsEnd(s, p) ==
    IF p <= Len(s) /\ IsDigit(s[p]) THEN DigitsEnd(s, p + 1) ELSE p - 1

RECURSIVE SpacesEnd(_, _)
SpacesEnd(s, p) ==
    IF p <= Len(s) /\ IsSpace(s[p]) THEN SpacesEnd(s, p + 1) ELSE p - 1

FieldOf(p, e, v, minLen, lo, hi) ==
    [ok   |-> e - p + 1 >= minLen /\ e - p + 1 <= 2 /\ v >= lo /\ v <= hi,
     val  |-> v,
     next |-> e + 1]

\* One numeric directive read at p: [ok, val, next].  It takes the digits
\* that are there, at least minLen of them and two at most.
Field(s, p, minLen, lo, hi) == FieldOf(p, DigitsEnd(s, p), DigitsVal(Slice(s, p, DigitsEnd(s, p))), minLen, lo, hi)

\* Note.date_format, "%y/%m/%d %H:%M:%S", directive by directive.
date_format == <<"y", "/", "m", "/", "d", " ", "H", ":", "M", ":", "S">>

\* The digits a directive needs at least, and the range of its value.
Directive(c) ==
    CASE c = "y" -> [minLen |-> 2, lo |-> 0, hi |-> 99]
      [] c = "m" -> [minLen |-> 1, lo |-> 1, hi |-> 12]
      [] c = "d" -> [minLen |-> 1, lo |-> 1, hi |-> 31]
      [] c = "H" -> [minLen |-> 1, lo |-> 0, hi |-> 23]
      [] c = "M" -> [minLen |-> 1, lo |-> 0, hi |-> 59]
      [] c = "S" -> [minLen |-> 1, lo |-> 0, hi |-> 61]

\* %d also takes a blank and one digit that is not 0.
BlankDay(s, p) == p + 1 <= Len(s) /\ s[p] = " " /\ IsDigit(s[p + 1]) /\ s[p + 1] # "0"

\* The text s read from p against the format fmt: [ok, vals].  A blank of the
\* format takes one or more whitespace, another character takes itself, and
\* nothing may be left of s at the end of the format.
RECURSIVE Scan(_, _, _, _)
ScanField(s, f, fmt, vals) ==
    IF f.ok THEN Scan(s, f.next, Tail(fmt), Append(vals, f.val))
    ELSE [ok |-> FALSE, vals |-> vals]

Scan(s, p, fmt, vals) ==
    IF fmt = <<>> THEN [ok |-> p = Len(s) + 1, vals |-> vals]
    ELSE IF Head(fmt) \in {"y", "m", "d", "H", "M", "S"}
    THEN ScanField(s, IF Head(fmt) = "d" /\ BlankDay(s, p)
                      THEN [ok |-> TRUE, val |-> DigitVal(s[p + 1]), next |-> p + 2]
                      ELSE Field(s, p, Directive(Head(fmt)).minLen, Directive(Head(fmt)).lo,
                                 Directive(Head(fmt)).hi), fmt, vals)
    ELSE IF Head(fmt) = " "
    THEN (IF SpacesEnd(s, p) >= p THEN Scan(s, SpacesEnd(s, p) + 1, Tail(fmt), vals)
          ELSE [ok |-> FALSE, vals |-> vals])
    ELSE IF p <= Len(s) /\ s[p] = Head(fmt) THEN Scan(s, p + 1, Tail(fmt), vals)
    ELSE [ok |-> FALSE, vals |-> vals]

NoDate == DateTime(0, 0, 0, 0, 0, 0)

\* %y: 69..99 is 19xx and 00..68 is 20xx.
Century(yy) == IF yy < 69 THEN 2000 + yy ELSE 1900 + yy

\* The datetime of the values read, when there is such a date and time.
DateOf(r) ==
    IF r.ok /\ r.vals[3] <= DaysIn(Century(r.vals[1]), r.vals[2]) /\ r.vals[6] <= 59
    THEN [ok |-> TRUE,
          date |-> DateTime(Century(r.vals[1]), r.vals[2], r.vals[3],
                            r.vals[4], r.vals[5], r.vals[6])]
    ELSE [ok |-> FALSE, date |-> NoDate]

\* datetime.strptime(text, Note.date_format): [ok, date]; not ok is the
\* ValueError.
strptime(s) == DateOf(Scan(s, 1, date_format, <<>>))

(***************************************************************************)
(* Note                                                                    *)
(***************************************************************************)
\* Note.__init__: the three fields, stored as given.
Note(message, labels, date) == [message |-> message, labels |-> labels, date |-> date]

\* Note.__str__: "@lab1, @lab2 [yy/mm/dd HH:MM:SS] : message"
NoteStr(n) ==
    LET f_labels == Join([i \in DOMAIN n.labels |-> <<"@">> \o n.labels[i]], <<",", " ">>)
        f_date   == strftime(n.date)
    IN  f_labels \o <<" ">> \o f_date \o <<" ", ":", " ">> \o n.message

\* Where \s\[ can match in s: the blank that ends group 1.
OpenAt(s) == {j \in 1..(Len(s) - 1) : IsSpace(s[j]) /\ s[j + 1] = "["}

\* Where \]\s:\s can match in s: the bracket that ends group 2.
CloseAt(s) ==
    {k \in 1..(Len(s) - 3) :
        s[k] = "]" /\ IsSpace(s[k + 1]) /\ s[k + 2] = ":" /\ IsSpace(s[k + 3])}

AllDot(s, a, b) == \A p \in a..b : IsDot(s[p])

\* (@.*)\s\[(.*)\]\s:\s(.*) matches s from i with group 1 = s[i..j-1] and
\* group 2 = s[j+2..k-1].
MatchAt(s, i, j, k) ==
    /\ s[i] = "@"
    /\ i < j /\ j \in OpenAt(s)
    /\ j + 2 <= k /\ k \in CloseAt(s)
    /\ AllDot(s, i, j - 1) /\ AllDot(s, j + 2, k - 1)

\* The three groups of a match.
Groups(s, i, j, k) ==
    <<Slice(s, i, j - 1),
      Slice(s, j + 2, k - 1),
      Slice(s, k + 4, Min({p \in (k + 4)..(Len(s) + 1) : p = Len(s) + 1 \/ ~IsDot(s[p])}) - 1)>>

\* Group 2 is greedy: of the brackets that can end it, the last.
SearchClose(s, i, j) == Groups(s, i, j, Max({k \in CloseAt(s) : MatchAt(s, i, j, k)}))

\* Group 1 is greedy and decided before group 2: of the blanks that can end
\* it with the rest still matching, the last.
SearchOpen(s, i) ==
    SearchClose(s, i, Max({j \in OpenAt(s) : \E k \in CloseAt(s) : MatchAt(s, i, j, k)}))

\* Where a match can start.
Starts(s) == {i \in 1..Len(s) : \E j \in OpenAt(s), k \in CloseAt(s) : MatchAt(s, i, j, k)}

\* Note.note_pattern.search(text): the leftmost match; group 3 runs to the
\* end of the line.  [ok, groups]; not ok is the None that search returns.
note_pattern_search(s) ==
    IF Starts(s) = {} THEN [ok |-> FALSE, groups |-> <<>>]
    ELSE [ok |-> TRUE, groups |-> SearchOpen(s, Min(Starts(s)))]

NoNote == Note(<<>>, <<>>, NoDate)

\* [lab[1:] for lab in labels]
SplitTail(split) == [i \in DOMAIN split |-> Slice(split[i], 2, Len(split[i]))]

\* labels.split(', ') and [lab[1:] for lab in labels]
LabelsOf(group) == SplitTail(Split(group, <<",", " ">>))

\* Note.from_yaml past the pattern: a bracketed part that is no date raises
\* ValueError.
NoteOf(labels, date, message) ==
    IF ~date.ok THEN [err |-> "ValueError", note |-> NoNote]
    ELSE [err |-> "", note |-> Note(message, labels, date.date)]

\* .groups() of what search returned: AttributeError on None.
NoteOfFound(found) ==
    IF ~found.ok THEN [err |-> "AttributeError", note |-> NoNote]
    ELSE NoteOf(LabelsOf(found.groups[1]), strptime(found.groups[2]), found.groups[3])

\* Note.from_yaml on the scalar text of a !note node: [err, note].
NoteFromYaml(text) == NoteOfFound(note_pattern_search(text))

(***************************************************************************)
(* Python dict: a function and the sequence of its keys in insertion order *)
(***************************************************************************)
\* d[k] = v: a new key goes last, a key already there keeps its place.
DictSet(f, k, v) == [x \in (DOMAIN f) \cup {k} |-> IF x = k THEN v ELSE f[x]]

KeysSet(keys, k) == IF k \in Range(keys) THEN keys ELSE Append(keys, k)

\* d.pop(k)
DictPop(f, k) == [x \in (DOMAIN f) \ {k} |-> f[x]]

KeysPop(keys, k) == SelectSeq(keys, LAMBDA x : x # k)

\* A variant of ListRemove: [y for y in l if y != x], every occurrence of x
\* goes.
ListRemoveAll(l, x) == SelectSeq(l, LAMBDA y : y # x)

\* list.remove(x): the list without the first occurrence of x.
ListRemove(l, x) ==
    LET p == Min({q \in DOMAIN l : l[q] = x})
    IN  Slice(l, 1, p - 1) \o Slice(l, p + 1, Len(l))

\* A value passed where the code takes "an id or a label": Python compares
\* an int and a str as different whatever their text.
\* [kind, int, str], the part that is not of the kind left at 0 or "".
IntField(n) == [kind |-> "int", int |-> n, str |-> <<>>]

StrField(s) == [kind |-> "str", int |-> 0, str |-> s]

\* "field in self.notes": the keys of notes are ints.
InNotes(field, notes_) == field.kind = "int" /\ field.int \in DOMAIN notes_

\* "field in self.label_id_map": the keys of label_id_map are strs.
InLabelIdMap(field, map) == field.kind = "str" /\ field.str \in DOMAIN map

(***************************************************************************)
(* NoteTaker                                                               *)
(***************************************************************************)
\* NoteTaker.__init__
NewNoteTaker ==
    [current_id |-> 0, notes |-> <<>>, order |-> <<>>, label_id_map |-> <<>>]

Undefined == <<"u", "n", "d", "e", "f", "i", "n", "e", "d">>

\* A variant of NoteLabels: the labels are stored as the caller wrote them.
NoteLabelsAsGiven(labels) == IF labels = <<>> THEN <<Undefined>> ELSE labels

\* A variant of NoteLabels: without the default, no label given is no label
\* stored.
NoteLabelsNoDefault(labels) == [i \in DOMAIN labels |-> Lower(labels[i])]

\* add_note, the labels the note gets.
NoteLabels(labels) ==
    IF labels = <<>> THEN <<Undefined>>
    ELSE [i \in DOMAIN labels |-> Lower(labels[i])]

\* A variant of SetDefaultAppend: self.label_id_map[lab] = [note_id]
SetDefaultOverwrite(map, lab, note_id) == DictSet(map, lab, <<note_id>>)

\* self.label_id_map.setdefault(lab, []).append(note_id)
SetDefaultAppend(map, lab, note_id) ==
    DictSet(map, lab, (IF lab \in DOMAIN map THEN map[lab] ELSE <<>>) \o <<note_id>>)

\* for lab in labels: self.label_id_map.setdefault(lab, []).append(note_id)
RECURSIVE IndexLabels(_, _, _)
IndexLabels(map, labels, note_id) ==
    IF labels = <<>> THEN map
    ELSE IndexLabels(SetDefaultAppend(map, Head(labels), note_id), Tail(labels), note_id)

\* NoteTaker.add_note(message, *labels) at the time now.
add_note(self, message, labels, now) ==
    LET new_note == Note(message, NoteLabels(labels), now)
    IN  [current_id   |-> self.current_id + 1,
         notes        |-> DictSet(self.notes, self.current_id, new_note),
         order        |-> KeysSet(self.order, self.current_id),
         label_id_map |-> IndexLabels(self.label_id_map, new_note.labels, self.current_id)]

\* for lab in note.labels: self.label_id_map[lab].remove(note_id)
\* [err, map]: a label that is no key raises KeyError, a list without the id
\* raises ValueError, and the loop stops there with what it has removed.
RECURSIVE UnindexLabels(_, _, _)
UnindexLabels(map, labels, note_id) ==
    IF labels = <<>> THEN [err |-> "", map |-> map]
    ELSE LET lab == Head(labels)
         IN  IF lab \notin DOMAIN map THEN [err |-> "KeyError", map |-> map]
             ELSE IF note_id \notin Range(map[lab]) THEN [err |-> "ValueError", map |-> map]
             ELSE UnindexLabels(DictSet(map, lab, ListRemove(map[lab], note_id)),
                                Tail(labels), note_id)

\* A variant of delete_note: the counter is set again from the keys left, as
\* from_yaml sets it.
delete_note_resetting(self, note_id) ==
    IF note_id \notin DOMAIN self.notes THEN [err |-> "KeyError", self |-> self]
    ELSE [err  |-> UnindexLabels(self.label_id_map, self.notes[note_id].labels, note_id).err,
          self |-> [current_id   |-> IF DOMAIN self.notes = {note_id} THEN 0
                                     ELSE Max(DOMAIN self.notes \ {note_id}) + 1,
                    notes        |-> DictPop(self.notes, note_id),
                    order        |-> KeysPop(self.order, note_id),
                    label_id_map |-> UnindexLabels(self.label_id_map,
                                                   self.notes[note_id].labels, note_id).map]]

\* A variant of delete_note: self.notes.pop(note_id, None), an id that is
\* not there is passed over in silence.
delete_note_ignoring(self, note_id) ==
    IF note_id \notin DOMAIN self.notes THEN [err |-> "", self |-> self]
    ELSE [err  |-> UnindexLabels(self.label_id_map, self.notes[note_id].labels, note_id).err,
          self |-> [current_id   |-> self.current_id,
                    notes        |-> DictPop(self.notes, note_id),
                    order        |-> KeysPop(self.order, note_id),
                    label_id_map |-> UnindexLabels(self.label_id_map,
                                                   self.notes[note_id].labels, note_id).map]]

\* A variant of delete_note: the note stays in self.notes, only the index
\* loses it.
delete_note_keeping(self, note_id) ==
    IF note_id \notin DOMAIN self.notes THEN [err |-> "KeyError", self |-> self]
    ELSE [err  |-> UnindexLabels(self.label_id_map, self.notes[note_id].labels, note_id).err,
          self |-> [current_id   |-> self.current_id,
                    notes        |-> self.notes,
                    order        |-> self.order,
                    label_id_map |-> UnindexLabels(self.label_id_map,
                                                   self.notes[note_id].labels, note_id).map]]

\* NoteTaker.delete_note(note_id): [err, self].
delete_note(self, note_id) ==
    IF note_id \notin DOMAIN self.notes THEN [err |-> "KeyError", self |-> self]
    ELSE LET note == self.notes[note_id]
             un   == UnindexLabels(self.label_id_map, note.labels, note_id)
         IN  [err  |-> un.err,
              self |-> [current_id   |-> self.current_id,
                        notes        |-> DictPop(self.notes, note_id),
                        order        |-> KeysPop(self.order, note_id),
                        label_id_map |-> un.map]]

\* NoteTaker.find_note_id(label): [err, ids].
find_note_id(self, label) ==
    IF ~InLabelIdMap(label, self.label_id_map) THEN [err |-> "KeyError", ids |-> <<>>]
    ELSE [err |-> "",
          ids |-> SelectSeq(self.label_id_map[label.str],
                            LAMBDA note_id : note_id \in DOMAIN self.notes)]

\* res.update({n_id: self.notes[n_id] for n_id in ids})
RECURSIVE UpdateFrom(_, _, _)
UpdateFrom(res, ids, notes_) ==
    IF ids = <<>> THEN res
    ELSE UpdateFrom([notes |-> DictSet(res.notes, Head(ids), notes_[Head(ids)]),
                     order |-> KeysSet(res.order, Head(ids))],
                    Tail(ids), notes_)

\* A variant of find_note: the label looked up is str(field), so an id is
\* also taken for the label of the same text.
find_note_coercing(self, field) ==
    LET res0  == [notes |-> <<>>, order |-> <<>>]
        res1  == IF InNotes(field, self.notes)
                 THEN UpdateFrom(res0, <<field.int>>, self.notes)
                 ELSE res0
        found == find_note_id(self, IF field.kind = "int" THEN StrField(IntToStr(field.int))
                                    ELSE field)
    IN  [err |-> "",
         res |-> IF found.err = "KeyError" THEN res1
                 ELSE UpdateFrom(res1, found.ids, self.notes)]

\* NoteTaker.find_note(field): [err, res], res a dict of notes by id.
\* The KeyError of find_note_id is caught; nothing else can be raised.
find_note(self, field) ==
    LET res0  == [notes |-> <<>>, order |-> <<>>]
        res1  == IF InNotes(field, self.notes)
                 THEN UpdateFrom(res0, <<field.int>>, self.notes)
                 ELSE res0
        found == find_note_id(self, field)
    IN  [err |-> "",
         res |-> IF found.err = "KeyError" THEN res1
                 ELSE UpdateFrom(res1, found.ids, self.notes)]

\* os.linesep
linesep == <<"\n">>

\* for key, value in self.notes.items(): msg += f"{key} -> {str(value)}" + os.linesep
RECURSIVE StrLines(_, _)
StrLines(keys, notes_) ==
    IF keys = <<>> THEN <<>>
    ELSE IntToStr(Head(keys)) \o <<" ", "-", ">", " ">> \o NoteStr(notes_[Head(keys)])
            \o linesep \o StrLines(Tail(keys), notes_)

\* NoteTaker.__str__: the notes in the order of the dict.
NoteTakerStr(self) == StrLines(self.order, self.notes)

\* NoteTaker.to_yaml: the mapping node of self.notes, entry by entry in the
\* order of the dict, each note dumped by Note.to_yaml as the text of str(note).
to_yaml(self) == [i \in DOMAIN self.order |-> <<self.order[i], NoteStr(self.notes[self.order[i]])>>]

\* The dict of the keys and the notes made, or the first error raised.
MappingOf(doc, parsed) ==
    IF \E i \in DOMAIN doc : parsed[i].err # ""
    THEN [err |-> parsed[Min({i \in DOMAIN doc : parsed[i].err # ""})].err,
          keys |-> <<>>, notes |-> <<>>]
    ELSE [err   |-> "",
          keys  |-> [i \in DOMAIN doc |-> doc[i][1]],
          notes |-> [k \in {doc[i][1] : i \in DOMAIN doc} |->
                        parsed[CHOOSE i \in DOMAIN doc : doc[i][1] = k].note]]

\* construct_mapping(node, deep=True): every !note scalar goes through
\* Note.from_yaml; [err, keys, notes].
ConstructMapping(doc) == MappingOf(doc, [i \in DOMAIN doc |-> NoteFromYaml(doc[i][2])])

\* from_yaml, the index: for note_id, note in new_dict.items(): for lab in ...
RECURSIVE IndexNotes(_, _, _)
IndexNotes(map, keys, notes_) ==
    IF keys = <<>> THEN map
    ELSE IndexNotes(IndexLabels(map, notes_[Head(keys)].labels, Head(keys)),
                    Tail(keys), notes_)

\* A variant of CurrentIdOf: len(new_dict), the number of the notes loaded.
CurrentIdOfLen(keys) == [err |-> "", id |-> Len(keys)]

\* from_yaml, the counter: max(new_dict.keys()) + 1, a ValueError on no key.
CurrentIdOf(keys) ==
    IF keys = <<>> THEN [err |-> "ValueError", id |-> 0]
    ELSE [err |-> "", id |-> Max(Range(keys)) + 1]

\* from_yaml past construct_mapping.
NoteTakerOf(new_dict) ==
    IF new_dict.err # "" THEN [err |-> new_dict.err, self |-> NewNoteTaker]
    ELSE IF CurrentIdOf(new_dict.keys).err # ""
    THEN [err |-> CurrentIdOf(new_dict.keys).err, self |-> NewNoteTaker]
    ELSE [err  |-> "",
          self |-> [current_id   |-> CurrentIdOf(new_dict.keys).id,
                    notes        |-> new_dict.notes,
                    order        |-> new_dict.keys,
                    label_id_map |-> IndexNotes(<<>>, new_dict.keys, new_dict.notes)]]

\* NoteTaker.from_yaml on a document: [err, self].
from_yaml(doc) == NoteTakerOf(ConstructMapping(doc))

(***************************************************************************)
(* Inputs of the model.                                                    *)
(***************************************************************************)
Todo == <<"t", "o", "d", "o">>

TodoUpper == <<"T", "O", "D", "O">>

Zero == <<"0">>

\* Message texts: a plain one, and one that holds a bracket followed by " : ".
Plain == <<"a">>

Bracketed == <<"b", " ", "[", "x", "]", " ", ":", " ", "c">>

\* A label that holds the ", " that __str__ puts between labels.
CommaLabel == <<"d", ",", " ", "o">>

\* The calls of add_note, <<message, labels>>: no label; labels in upper case,
\* one of them the text of an id; a label given twice, in lower case; a label
\* with a comma and a blank in it.
AddCalls ==
    {<<Plain, <<>>>>,
     <<Plain, <<TodoUpper, Zero>>>>,
     <<Bracketed, <<Todo, Todo>>>>,
     <<Plain, <<CommaLabel>>>>}

\* datetime.datetime.now()
Clock == {DateTime(2018, 12, 31, 12, 36, 11)}

\* What find_note is asked for.
Fields ==
    {IntField(0), IntField(1), StrField(Zero), StrField(Todo), StrField(TodoUpper)}

\* Documents a program starts from: the notes of the class's doctest in
\* short, without a gap, with a gap, out of order, and one without notes.
DocNote0 == NoteStr(Note(Plain, <<Todo, Zero>>, DateTime(2018, 12, 22, 12, 36, 11)))

DocNote1 == NoteStr(Note(Plain, <<Todo>>, DateTime(2018, 12, 24, 12, 36, 11)))

Docs ==
    {<<>>,
     <<<<0, DocNote0>>, <<1, DocNote1>>>>,
     <<<<0, DocNote0>>, <<2, DocNote1>>>>,
     <<<<2, DocNote1>>, <<0, DocNote0>>>>}

(***************************************************************************)
(* The state: one NoteTaker object and the last call made on it.           *)
(***************************************************************************)
VARIABLES
    current_id,     \* self.current_id
    notes,          \* self.notes, the function
    order,          \* self.notes, the order of its keys
    label_id_map,   \* self.label_id_map
    ret,            \* the last call: [op, arg, err, val]
    issued,         \* history: the ids add_note has given, in the order given
    deleted,        \* history: the ids delete_note has removed from this object
    fresh           \* history: the object is the one NoteTaker() made

vars == <<current_id, notes, order, label_id_map, ret, issued, deleted, fresh>>

Self ==
    [current_id |-> current_id, notes |-> notes, order |-> order,
     label_id_map |-> label_id_map]

SetSelf(new) ==
    /\ current_id' = new.current_id
    /\ notes' = new.notes
    /\ order' = new.order
    /\ label_id_map' = new.label_id_map

Call(op, arg, err, val) == [op |-> op, arg |-> arg, err |-> err, val |-> val]

\* THE_NOTE_TAKER = NoteTaker()
Init ==
    /\ current_id = NewNoteTaker.current_id
    /\ notes = NewNoteTaker.notes
    /\ order = NewNoteTaker.order
    /\ label_id_map = NewNoteTaker.label_id_map
    /\ ret = Call("NoteTaker", <<>>, "", <<>>)
    /\ issued = <<>>
    /\ deleted = {}
    /\ fresh = TRUE

\* self.add_note(message, *labels)
AddNote(message, labels, now) ==
    /\ Len(issued) < MaxAdds
    /\ SetSelf(add_note(Self, message, labels, now))
    /\ ret' = Call("add_note", <<message, labels>>, "", <<>>)
    /\ issued' = Append(issued, current_id)
    /\ UNCHANGED <<deleted, fresh>>

\* self.delete_note(note_id), for an id that is there or not.
DeleteNote(note_id) ==
    LET r == delete_note(Self, note_id)
    IN  /\ SetSelf(r.self)
        /\ ret' = Call("delete_note", note_id, r.err, <<>>)
        /\ deleted' = IF r.err = "" THEN deleted \cup {note_id} ELSE deleted
        /\ UNCHANGED <<issued, fresh>>

\* A variant of FindNoteId: the list is read with
\* self.label_id_map.setdefault(label, []), so a label that is no key
\* becomes one.
FindNoteIdSettingDefault(label) ==
    LET r == find_note_id(Self, label)
    IN  /\ ret' = Call("find_note_id", label, "", r.ids)
        /\ label_id_map' = IF label.kind = "str" /\ label.str \notin DOMAIN label_id_map
                           THEN DictSet(label_id_map, label.str, <<>>)
                           ELSE label_id_map
        /\ UNCHANGED <<current_id, notes, order, issued, deleted, fresh>>

\* self.find_note_id(label)
FindNoteId(label) ==
    LET r == find_note_id(Self, label)
    IN  /\ ret' = Call("find_note_id", label, r.err, r.ids)
        /\ UNCHANGED <<current_id, notes, order, label_id_map, issued, deleted, fresh>>

\* self.find_note(field)
FindNote(field) ==
    LET r == find_note(Self, field)
    IN  /\ ret' = Call("find_note", field, r.err, r.res)
        /\ UNCHANGED <<current_id, notes, order, label_id_map, issued, deleted, fresh>>

\* The object that YAML().load(doc) makes takes the place of the one at hand;
\* when the load raises, the one at hand stays.
LoadedAs(doc, r) ==
    /\ ret' = Call("load", doc, r.err, <<>>)
    /\ IF r.err = ""
       THEN SetSelf(r.self) /\ deleted' = {} /\ fresh' = FALSE
       ELSE UNCHANGED <<current_id, notes, order, label_id_map, deleted, fresh>>
    /\ UNCHANGED issued

Loaded(doc) == LoadedAs(doc, from_yaml(doc))

\* The end of one run of the command line and the start of the next: the
\* object is dumped (save_notes) and the next run loads what was dumped.
Reload == Loaded(to_yaml(Self))

\* A program that starts from a document instead of NoteTaker().
LoadDoc(doc) ==
    /\ ret.op = "NoteTaker"
    /\ Loaded(doc)

\* One NoteTaker object, made empty or loaded from a document, and the calls
\* of its methods in any order.
Next ==
    \/ \E call \in AddCalls, now \in Clock : AddNote(call[1], call[2], now)
    \/ \E note_id \in 0..current_id : DeleteNote(note_id)
    \/ \E label \in Fields : FindNoteId(label)
    \/ \E field \in Fields : FindNote(field)
    \/ \E doc \in Docs : LoadDoc(doc)

Spec == Init /\ [][Next]_vars

\* str.strip()
Strip(s) ==
    IF SpacesEnd(s, 1) = Len(s) THEN <<>>
    ELSE Slice(s, SpacesEnd(s, 1) + 1, Max({q \in 1..Len(s) : ~IsSpace(s[q])}))

\* Where the word that starts at b ends.
WordEnd(s, b) == Min({q \in b..(Len(s) + 1) : q = Len(s) + 1 \/ IsSpace(s[q])}) - 1

\* str.split() without a separator: the words between runs of whitespace.
RECURSIVE SplitWords(_, _)
SplitWords(s, p) ==
    IF SpacesEnd(s, p) >= Len(s) THEN <<>>
    ELSE <<Slice(s, SpacesEnd(s, p) + 1, WordEnd(s, SpacesEnd(s, p) + 1))>>
            \o SplitWords(s, WordEnd(s, SpacesEnd(s, p) + 1) + 1)

\* message, labels = note.split('@'): ValueError unless there are two parts;
\* labels = [lab.strip() for lab in labels.split()]
Unpacked(parts) ==
    IF Len(parts) # 2 THEN [err |-> "ValueError", message |-> <<>>, labels |-> <<>>]
    ELSE [err     |-> "",
          message |-> parts[1],
          labels  |-> [i \in DOMAIN SplitWords(parts[2], 1) |->
                          Strip(SplitWords(parts[2], 1)[i])]]

\* launch(note), what add_note is to be called with: [err, message, labels].
NoteArgs(note) ==
    IF "@" \in Range(note) THEN Unpacked(Split(note, <<"@">>))
    ELSE [err |-> "", message |-> note, labels |-> <<>>]

\* The NOTE arguments of the command line: no "@", one "@" with blanks
\* around the words, and two labels each written with its "@".
CliNotes ==
    {Plain,
     <<" ", "a", " ", "@", "T", "O", "D", "O", " ", " ", "0", " ">>,
     <<"a", " ", "@", "t", "o", "d", "o", " ", "@", "0">>}

\* launch(note=note): notetaker.add_note(message.strip(), *labels), on the
\* object the run has loaded; a run that raises stores nothing.
LaunchAs(note, args, now) ==
    IF args.err # ""
    THEN /\ ret' = Call("launch", note, args.err, <<>>)
         /\ UNCHANGED <<current_id, notes, order, label_id_map, issued, deleted, fresh>>
    ELSE /\ Len(issued) < MaxAdds
         /\ SetSelf(add_note(Self, Strip(args.message), args.labels, now))
         /\ ret' = Call("launch", note, "", <<Strip(args.message), args.labels>>)
         /\ issued' = Append(issued, current_id)
         /\ UNCHANGED <<deleted, fresh>>

LaunchNote(note, now) == LaunchAs(note, NoteArgs(note), now)

\* The notes across runs of the command line (launch): adds and deletes, with
\* the object dumped and loaded again between them.
NextCli ==
    \/ \E call \in AddCalls, now \in Clock : AddNote(call[1], call[2], now)
    \/ \E note \in CliNotes, now \in Clock : LaunchNote(note, now)
    \/ \E note_id \in 0..current_id : DeleteNote(note_id)
    \/ Reload

SpecCli == Init /\ [][NextCli]_vars

\* delete_note and the lookups as functions of the object they are given.
\* notes and label_id_map are plain attributes, written by the methods only
\* in step with each other; the objects below are what the methods are given
\* when label_id_map was written apart from notes: two notes stored by
\* add_note, and the index as add_note left it, without the id of note 0
\* under its first label, without an entry for its second label, and with an
\* empty list under its second label.
Indexed == add_note(add_note(NewNoteTaker, Plain, <<TodoUpper, Zero>>,
                             DateTime(2018, 12, 22, 12, 36, 11)),
                    Plain, <<Todo>>, DateTime(2018, 12, 24, 12, 36, 11))

WithIndex(self, map) ==
    [current_id |-> self.current_id, notes |-> self.notes, order |-> self.order,
     label_id_map |-> map]

DriftObjects ==
    {Indexed,
     WithIndex(Indexed, DictSet(Indexed.label_id_map, Todo, <<1>>)),
     WithIndex(Indexed, DictPop(Indexed.label_id_map, Zero)),
     WithIndex(Indexed, DictSet(Indexed.label_id_map, Zero, <<>>))}

InitDrift ==
    /\ \E self \in DriftObjects :
          /\ current_id = self.current_id
          /\ notes = self.notes
          /\ order = self.order
          /\ label_id_map = self.label_id_map
    /\ ret = Call("NoteTaker", <<>>, "", <<>>)
    /\ issued = <<>>
    /\ deleted = {}
    /\ fresh = FALSE

NextDrift ==
    \/ \E note_id \in 0..current_id : DeleteNote(note_id)
    \/ \E label \in Fields : FindNoteId(label)
    \/ \E field \in Fields : FindNote(field)

SpecDrift == InitDrift /\ [][NextDrift]_vars

\* Note.from_yaml as a function of the scalar text of a !note node.  The
\* texts are put together from what may come before the labels, a block of
\* labels, a bracketed part and the rest.
Prefixes == {<<>>, <<"x">>, <<"x", " ">>}

LabelBlocks ==
    {<<"@">> \o Todo,
     <<"@">> \o Todo \o <<",", " ", "@">> \o Zero,
     Todo,
     <<"@">>}

Bracketeds ==
    {strftime(DateTime(2018, 12, 31, 12, 36, 11)),
     <<"[", "x", "]">>,
     strftime(DateTime(2018, 13, 31, 12, 36, 11)),
     <<"1", "8", "/", "1", "2", "/", "3", "1">>}

Rests ==
    {<<" ", ":", " ">> \o Plain,
     <<" ", ":", " ">>,
     <<":", " ">> \o Plain,
     <<" ", ":", " ">> \o Bracketed}

Texts ==
    {p \o l \o <<" ">> \o b \o r :
        p \in Prefixes, l \in LabelBlocks, b \in Bracketeds, r \in Rests}

\* YAML().load of a !note scalar: Note.from_yaml(constructor, node)
ParseNote(text) ==
    LET r == NoteFromYaml(text)
    IN  /\ ret' = Call("Note.from_yaml", text, r.err, r.note)
        /\ UNCHANGED <<current_id, notes, order, label_id_map, issued, deleted, fresh>>

NextParse == \E text \in Texts : ParseNote(text)

SpecParse == Init /\ [][NextParse]_vars

(***************************************************************************)
(* Properties                                                              *)
(***************************************************************************)
\* The notes of a NoteTaker, without their dates: id -> <<message, labels>>.
Content(self) ==
    [id \in DOMAIN self.notes |-> <<self.notes[id].message, self.notes[id].labels>>]

\* Invariant A of the data model, index completeness: every label of every
\* note is a key of label_id_map and its list holds the id of the note.
InvariantA(self) ==
    \A id \in DOMAIN self.notes :
        \A i \in DOMAIN self.notes[id].labels :
            /\ self.notes[id].labels[i] \in DOMAIN self.label_id_map
            /\ id \in Range(self.label_id_map[self.notes[id].labels[i]])

\* C1: on the object NoteTaker() made, the k-th add_note (from 0) gives id k
\* whatever delete_note calls come between: the counter is the number of adds
\* made, deletes leave it alone, and no id comes twice.
C1_IdsCountAdds ==
    fresh => /\ current_id = Len(issued)
             /\ \A k \in DOMAIN issued : issued[k] = k - 1

\* add a, add b, delete 0, add c: c has id 2.
C1_Witness ==
    /\ fresh
    /\ ret.op = "add_note"
    /\ issued = <<0, 1, 2>>
    /\ 0 \in deleted
    /\ DOMAIN notes = {1, 2}

\* C2: across adds, deletes and dump-then-load, no id is given to two notes.
C2_IdsNeverReassigned ==
    \A i, j \in DOMAIN issued : i # j => issued[i] # issued[j]

\* C3: Invariant A holds in every state of an object made empty or loaded
\* from a document, after any calls of add_note and delete_note.
C3_InvariantA == InvariantA(Self)

\* A loaded object that has lost a note and got a new one with a label the
\* notes left share.
C3_Witness ==
    /\ ~fresh
    /\ deleted # {}
    /\ issued # <<>>
    /\ \E lab \in DOMAIN label_id_map : Cardinality(Range(label_id_map[lab])) >= 2

\* C4: what is loaded from the dump of the object has the same ids, and under
\* each the same message and the same labels in the same order, and satisfies
\* Invariant A.
C4_CollectionRoundTrip ==
    /\ from_yaml(to_yaml(Self)).err = ""
    /\ Content(from_yaml(to_yaml(Self)).self) = Content(Self)
    /\ InvariantA(from_yaml(to_yaml(Self)).self)

\* C5: every note add_note has stored is read back from its text with the
\* same message and the same labels in the same order.
C5_NoteRoundTrip ==
    \A id \in DOMAIN notes :
        /\ NoteFromYaml(NoteStr(notes[id])).err = ""
        /\ NoteFromYaml(NoteStr(notes[id])).note.message = notes[id].message
        /\ NoteFromYaml(NoteStr(notes[id])).note.labels = notes[id].labels

\* C6: delete_note of an id that is not in notes raises, and notes,
\* label_id_map and current_id are after the call what they were before it.
C6_DeleteAbsentChangesNothing ==
    [][(ret'.op = "delete_note" /\ ret'.arg \notin DOMAIN notes)
          => /\ ret'.err = "KeyError"
             /\ UNCHANGED <<current_id, notes, order, label_id_map>>]_vars

\* A delete of an id that was deleted before has failed on an object that
\* holds notes.
C6_Witness ==
    /\ ret.op = "delete_note"
    /\ ret.err = "KeyError"
    /\ ret.arg \in deleted
    /\ notes # <<>>

\* The ids find_note_id gives for a label, none when it raises.
FoundIds(self, lab) == Range(find_note_id(self, StrField(lab)).ids)

\* C7: once delete_note(id) has succeeded, find_note(id) is the empty dict and
\* find_note_id gives id for no label, in the state after the delete and in
\* every state that further adds and deletes lead to.
C7_DeletedStaysGone ==
    \A id \in deleted :
        /\ find_note(Self, IntField(id)).res = [notes |-> <<>>, order |-> <<>>]
        /\ \A lab \in DOMAIN label_id_map : id \notin FoundIds(Self, lab)

\* A note was deleted, then a note was added under a label the deleted note
\* had, and that label is looked up.
C7_Witness ==
    /\ deleted # {}
    /\ issued # <<>>
    /\ \E id \in DOMAIN notes : id > Max(deleted) /\ Todo \in Range(notes[id].labels)
    /\ ret.op = "find_note_id" /\ ret.arg = StrField(Todo) /\ ret.val # <<>>

\* C8: find_note_id(label) is the list label_id_map[label] without the ids
\* that are no key of notes, and the empty list, not an error, for a label
\* that is no key of label_id_map.
C8_FindByLabelTotal ==
    \A field \in Fields :
        field.kind = "str" =>
            /\ find_note_id(Self, field).err = ""
            /\ find_note_id(Self, field).ids =
                  IF field.str \in DOMAIN label_id_map
                  THEN SelectSeq(label_id_map[field.str], LAMBDA id : id \in DOMAIN notes)
                  ELSE <<>>

\* The ids find_note is to give: the id asked for when it is a key of notes,
\* and the ids of the list of the label asked for that are keys of notes.
Expected(field) ==
    (IF field.kind = "int" /\ field.int \in DOMAIN notes THEN {field.int} ELSE {})
    \cup (IF field.kind = "str" /\ field.str \in DOMAIN label_id_map
          THEN {id \in Range(label_id_map[field.str]) : id \in DOMAIN notes}
          ELSE {})

\* C9: find_note(field) never raises and gives exactly the note of the id
\* field, if any, together with the notes find_note_id gives for the label
\* field, if any: an id does not stand for the label of the same text, and
\* the dict is empty when neither is there.
C9_FindIsUnionOfIdAndLabel ==
    \A field \in Fields :
        /\ find_note(Self, field).err = ""
        /\ find_note(Self, field).res.notes = [id \in Expected(field) |-> notes[id]]
        /\ Range(find_note(Self, field).res.order) = Expected(field)

\* find_note(0) has given the note 0 alone while another note has the
\* label "0" and note 0 has not.
C9_Witness ==
    /\ ret.op = "find_note" /\ ret.arg = IntField(0)
    /\ DOMAIN ret.val.notes = {0}
    /\ Zero \notin Range(notes[0].labels)
    /\ \E id \in DOMAIN notes : id # 0 /\ Zero \in Range(notes[id].labels)

\* How many times x is in the list l.
Count(l, x) == Cardinality({i \in DOMAIN l : l[i] = x})

\* C10: add_note with labels stores them in lower case, in the order given
\* and as many times as given, and appends the new id, as many times, to the
\* list of each of them in label_id_map, next to the ids already there.
C10_AddStoresLowercasedLabels ==
    [][(ret'.op = "add_note" /\ Len(issued') > Len(issued) /\ ret'.arg[2] # <<>>)
          => /\ current_id \in DOMAIN notes'
             /\ notes'[current_id].labels =
                   [i \in DOMAIN ret'.arg[2] |-> Lower(ret'.arg[2][i])]
             /\ \A lab \in Range(notes'[current_id].labels) :
                   /\ lab \in DOMAIN label_id_map'
                   /\ label_id_map'[lab] =
                         (IF lab \in DOMAIN label_id_map THEN label_id_map[lab] ELSE <<>>)
                         \o [k \in 1..Count(notes'[current_id].labels, lab) |-> current_id]]_vars

\* The label "todo" leads to two notes, the last added with "TODO".
C10_Witness ==
    /\ ret.op = "add_note"
    /\ ret.arg[2] = <<TodoUpper, Zero>>
    /\ Todo \in DOMAIN label_id_map
    /\ Cardinality(Range(label_id_map[Todo])) >= 2
    /\ current_id - 1 \in Range(label_id_map[Todo])

\* C11: every note of the object has at least one label, whether add_note
\* stored it or it was loaded from the dump of the object, and the note that
\* add_note has just stored for a call without labels has the one label
\* "undefined".
C11_LabelsNeverEmpty ==
    /\ \A id \in DOMAIN notes : notes[id].labels # <<>>
    /\ (ret.op = "add_note" /\ ret.arg[2] = <<>>)
          => /\ current_id - 1 \in DOMAIN notes
             /\ notes[current_id - 1].labels = <<Undefined>>

\* A note was added without labels to an object loaded from its dump, which
\* holds a note from before.
C11_Witness ==
    /\ ~fresh
    /\ ret.op = "add_note" /\ ret.arg[2] = <<>>
    /\ notes[current_id - 1].labels = <<Undefined>>
    /\ Cardinality(DOMAIN notes) >= 2

\* The ids of S from the least to the greatest.
RECURSIVE Ascending(_)
Ascending(S) == IF S = {} THEN <<>> ELSE <<Min(S)>> \o Ascending(S \ {Min(S)})

\* C12: str(self) is the lines "<id> -> <note text>", one for each note, from
\* the least id to the greatest, also for an object loaded from a document
\* whose keys are not in that order and given a further note.
C12_RenderAscending == NoteTakerStr(Self) = StrLines(Ascending(DOMAIN notes), notes)

\* C13: loading a document succeeds; from a document without notes the
\* object has no notes and current_id 0, from one with notes current_id is
\* the greatest key plus one.
C13_LoadSetsNextId ==
    ret.op = "load" =>
        /\ ret.err = ""
        /\ DOMAIN notes = {ret.arg[i][1] : i \in DOMAIN ret.arg}
        /\ current_id = IF ret.arg = <<>> THEN 0
                        ELSE Max({ret.arg[i][1] : i \in DOMAIN ret.arg}) + 1

C15_FindsReadOnly ==
    [][(ret'.op \in {"find_note_id", "find_note"})
          => /\ UNCHANGED <<current_id, notes, order, label_id_map>>
             /\ ret'.op = "find_note_id"
                   => find_note_id(Self', ret'.arg) = [err |-> ret'.err, ids |-> ret'.val]
             /\ ret'.op = "find_note"
                   => find_note(Self', ret'.arg) = [err |-> ret'.err, res |-> ret'.val]]_vars

\* A label was looked up that two notes have, on an object that has lost a
\* note.
C15_Witness ==
    /\ ret.op = "find_note_id" /\ ret.err = ""
    /\ Len(ret.val) >= 2
    /\ deleted # {}

\* The text is, from its first character to its last, a block of labels each
\* written "@label" and set apart by ", ", a blank, a date of the format in
\* square brackets, " : " and a message.
Canonical(text) ==
    \E j \in OpenAt(text), k \in CloseAt(text) :
        /\ j + 2 <= k
        /\ text[j] = " " /\ text[k + 1] = " " /\ text[k + 3] = " "
        /\ \A p \in 1..Len(text) : IsDot(text[p])
        /\ \A lab \in Range(Split(Slice(text, 1, j - 1), <<",", " ">>)) :
              lab # <<>> /\ Head(lab) = "@"
        /\ strptime(Slice(text, j + 2, k - 1)).ok

\* C16: Note.from_yaml raises for every text that is not of the canonical
\* shape as a whole, among them a text with characters before the first "@"
\* and a text whose bracketed part is no date; it makes no Note of such a
\* text.
C16_ParseRejectsNonCanonical ==
    (ret.op = "Note.from_yaml" /\ ~Canonical(ret.arg)) => ret.err # ""

\* What the command line is to call add_note with for the argument note: the
\* text before the first "@" without the blanks around it, and the words
\* after the first "@"; the whole text and no label when there is no "@".
WantedArgs(note) ==
    IF FindFrom(note, <<"@">>, 1) = 0 THEN <<note, <<>>>>
    ELSE <<Strip(Slice(note, 1, FindFrom(note, <<"@">>, 1) - 1)),
           SplitWords(Slice(note, FindFrom(note, <<"@">>, 1) + 1, Len(note)), 1)>>

\* C17: for an argument with one "@" or more the command line calls add_note
\* with the trimmed text before the first "@" as the message and the words
\* after the first "@" as the labels, and the add succeeds; an argument
\* without "@" is added as the message, without labels.
C17_CliSplitsAtFirstAt ==
    ret.op = "launch" => /\ ret.err = ""
                         /\ ret.val = WantedArgs(ret.arg)

\* C18: a label asked for in another letter case than it is stored in leads
\* to the same notes as the label in lower case, from find_note and from
\* find_note_id.
C18_LookupIgnoresCase ==
    \A field \in Fields :
        field.kind = "str" =>
            /\ find_note(Self, field).res = find_note(Self, StrField(Lower(field.str))).res
            /\ find_note_id(Self, field).ids
                  = find_note_id(Self, StrField(Lower(field.str))).ids

\* Every label of every note is a key of label_id_map, and each list holds
\* an id as many times as the note of that id has the label, an id that is
\* no key of notes not at all.
IndexExact(self) ==
    /\ \A id \in DOMAIN self.notes :
          Range(self.notes[id].labels) \subseteq DOMAIN self.label_id_map
    /\ \A lab \in DOMAIN self.label_id_map :
          \A id \in Range(self.label_id_map[lab]) \cup DOMAIN self.notes :
              Count(self.label_id_map[lab], id)
                 = IF id \in DOMAIN self.notes THEN Count(self.notes[id].labels, lab) ELSE 0

\* C19: in every state of an object made empty or loaded from a document,
\* after any calls of add_note and delete_note, the index is exact; so
\* find_note_id gives each list whole, and delete_note of an id that is a
\* key of notes does not raise.
C19_IndexExact ==
    /\ IndexExact(Self)
    /\ \A lab \in DOMAIN label_id_map :
          find_note_id(Self, StrField(lab)) = [err |-> "", ids |-> label_id_map[lab]]
    /\ \A id \in DOMAIN notes : delete_note(Self, id).err = ""

\* A loaded object that holds a note with the same label twice next to
\* another note with that label, after a delete that succeeded.
C19_Witness ==
    /\ ~fresh
    /\ ret.op = "delete_note" /\ ret.err = ""
    /\ \E id \in DOMAIN notes : Count(notes[id].labels, Todo) = 2
    /\ Cardinality(Range(label_id_map[Todo])) >= 2

\* C20: in every state of an object made empty or loaded from a document
\* with notes, after any calls of add_note and delete_note, current_id is
\* greater than every key of notes; so add_note stores its note under a key
\* that was not there, notes has one key more after it, and the notes that
\* were there are as they were.
C20_AddNeverOverwrites ==
    [][/\ \A id \in DOMAIN notes' : id < current_id'
       /\ (ret'.op = "add_note" /\ Len(issued') > Len(issued))
             => /\ current_id \notin DOMAIN notes
                /\ DOMAIN notes' = DOMAIN notes \cup {current_id}
                /\ \A id \in DOMAIN notes : notes'[id] = notes[id]]_vars

\* A note was added to an object loaded from a document whose keys leave a
\* gap, after its note with the greatest key was deleted.
C20_Witness ==
    /\ ~fresh
    /\ ret.op = "add_note"
    /\ 2 \in deleted
    /\ DOMAIN notes = {0, 3}

=============================================================================
